---------------------------- MODULE Spec2Model ----------------------------
(***************************************************************************)
(* Model of src/strategies.py: the Notification Relay (FillerEngine), the  *)
(* no-op notify hook of MinimalEngine and the external-process driver      *)
(* Engine (its move counter and its search method).                        *)
(*                                                                         *)
(* Numbers.  The time budget of chess.engine.Limit is in seconds and may   *)
(* be fractional.  Every quantity of the budget and the time control is    *)
(* kept here as an integer count of thousandths (3 decimals, fixed point): *)
(* a budget field 500 is 0.5 s, a time_control of 96000 is 96.             *)
(*                                                                         *)
(* Text.  A line of the response file is a sequence of one-character       *)
(* strings, so that startswith, the [16:] slice and strip() are computed   *)
(* on the characters as the code computes them.                            *)
(***************************************************************************)
EXTENDS Integers, Sequences, FiniteSets, TLC

VARIABLES
    move,       \* [instance -> Nat]: Engine.move, the per-instance counter
    calls,      \* [instance -> Nat]: history, search calls entered
    used,       \* history: one [inst, file_in, file_out] per allocation
    rec,        \* the last finished search call (inputs and effects)
    pc,         \* [thread -> label]: position inside search (SpecConc)
    frame,      \* [thread -> locals of search]: file_in, file_out, reg
    notified,   \* what the owner's notify has received, in order
    relay       \* the last call made on the FillerEngine

vars == <<move, calls, used, rec, pc, frame, notified, relay>>

-----------------------------------------------------------------------------
(* Bounds *)

MaxLines == 3       \* lines in a response file
MaxCalls == 3       \* search calls per behaviour
MaxNotify == 2      \* relay calls per behaviour

-----------------------------------------------------------------------------
(* Text helpers: characters, str.startswith, slicing, str.strip *)

Whitespace == {" ", "\n", "\t", "\r"}

RECURSIVE LStrip(_)
LStrip(s) ==
    IF s = <<>> THEN s
    ELSE IF Head(s) \in Whitespace THEN LStrip(Tail(s)) ELSE s

RECURSIVE RStrip(_)
RStrip(s) ==
    IF s = <<>> THEN s
    ELSE IF s[Len(s)] \in Whitespace THEN RStrip(SubSeq(s, 1, Len(s) - 1)) ELSE s

\* str.strip()
Strip(s) == RStrip(LStrip(s))

\* line.startswith(p)
StartsWith(line, p) == Len(line) >= Len(p) /\ SubSeq(line, 1, Len(p)) = p

\* line[n:]  (n is the 0-based Python offset)
SliceFrom(line, n) == SubSeq(line, n + 1, Len(line))

\* 'COMPUTER PLAYED'
PlayedPrefix ==
    <<"C", "O", "M", "P", "U", "T", "E", "R", " ", "P", "L", "A", "Y", "E", "D">>

\* the offset of out[i][16:]
TokenOffset == 16

\* 'RESIGN'
ResignToken == <<"R", "E", "S", "I", "G", "N">>

\* Optional token: Python's None, or a str
NoneToken == [isNone |-> TRUE, s |-> <<>>]
Some(s) == [isNone |-> FALSE, s |-> s]


-----------------------------------------------------------------------------
(* The board (python-chess, an external collaborator): side to move, the   *)
(* moves pushed, legal moves with their two notations.                     *)

\* A move carries its compact (UCI) and its rich (SAN) text.
Mv(uci, san) == [uci |-> uci, san |-> san]

\* Python's None where a Move is expected
NoMove == Mv(<<>>, <<>>)

E2E4 == Mv(<<"e", "2", "e", "4">>, <<"e", "4">>)
G1F3 == Mv(<<"g", "1", "f", "3">>, <<"N", "f", "3">>)
E7E5 == Mv(<<"e", "7", "e", "5">>, <<"e", "5">>)
G8F6 == Mv(<<"g", "8", "f", "6">>, <<"N", "f", "6">>)

WHITE == "w"
BLACK == "b"

StartBoard == [turn |-> WHITE, stack |-> <<>>]
AfterE4 == [turn |-> BLACK, stack |-> <<E2E4.uci>>]

\* The positions a harness hands to search
Boards == {StartBoard, AfterE4}

\* board.legal_moves
LegalMoves(board) ==
    IF board = StartBoard THEN {E2E4, G1F3}
    ELSE IF board = AfterE4 THEN {E7E5, G8F6}
    ELSE {}

\* board.push(move)
Push(board, m) ==
    [turn |-> IF board.turn = WHITE THEN BLACK ELSE WHITE,
     stack |-> Append(board.stack, m.uci)]

\* board.parse_san(token): the legal move written so, else ValueError
\* (None is a TypeError, decided by the caller below)
SanMatches(board, s) == {m \in LegalMoves(board) : m.san = s}
UciMatches(board, s) == {m \in LegalMoves(board) : m.uci = s}

\* board.fen(en_passant="fen"): side to move and the en-passant square,
\* which this mode writes after every double pawn push
Fen(board) ==
    [turn |-> board.turn,
     moves |-> board.stack,
     ep |-> IF board = AfterE4 THEN "e3" ELSE "-"]

-----------------------------------------------------------------------------
(* Step 1 of search: the time control, lines 124-133 *)

\* int(x) of a number x given in thousandths: truncation toward zero
IntOf(x) == IF x >= 0 THEN x \div 1000 ELSE -((-x) \div 1000)

Max(a, b) == IF a >= b THEN a ELSE b

SafetyMargin == 300
TimeFloor == 96
TableSize == 69696983

\* a field of chess.engine.Limit that is not None
Has(time_limit, f) == f \in DOMAIN time_limit

\* max(int(clock * 10) + int(inc) * 1000 - 300, 96), in thousandths
ClockControl(clock, inc) ==
    1000 * Max(IntOf(clock * 10) + IntOf(inc) * 1000 - SafetyMargin, TimeFloor)

\* the side whose clock the except branch reads
SideToRead(board) == board.turn

\* Faulty variant: the clock branch always reads white's clock.
TimeControlFlawedSide(board, time_limit) ==
    IF Has(time_limit, "time")
    THEN [raised |-> FALSE, value |-> time_limit.time * 1000]
    ELSE IF ~(Has(time_limit, "white_clock") /\ Has(time_limit, "white_inc"))
         THEN [raised |-> TRUE, value |-> 0]
         ELSE [raised |-> FALSE,
               value |-> ClockControl(time_limit.white_clock, time_limit.white_inc)]

\* Faulty variant: the clock branch without the floor.
TimeControlNoFloor(board, time_limit) ==
    IF Has(time_limit, "time")
    THEN [raised |-> FALSE, value |-> time_limit.time * 1000]
    ELSE LET c == IF SideToRead(board) = WHITE THEN "white_clock" ELSE "black_clock"
             i == IF SideToRead(board) = WHITE THEN "white_inc" ELSE "black_inc"
         IN  IF ~(Has(time_limit, c) /\ Has(time_limit, i))
             THEN [raised |-> TRUE, value |-> 0]
             ELSE [raised |-> FALSE,
                   value |-> 1000 * (IntOf(time_limit[c] * 10)
                                     + IntOf(time_limit[i]) * 1000 - SafetyMargin)]

\* try: time_limit.time * 1000; None * 1000 is a TypeError, caught by the
\* broad except, which reads the clock of the side to move; a None clock or
\* increment there is a TypeError that leaves search.
TimeControl(board, time_limit) ==
    IF Has(time_limit, "time")
    THEN [raised |-> FALSE, value |-> time_limit.time * 1000]
    ELSE LET c == IF SideToRead(board) = WHITE THEN "white_clock" ELSE "black_clock"
             i == IF SideToRead(board) = WHITE THEN "white_inc" ELSE "black_inc"
         IN  IF ~(Has(time_limit, c) /\ Has(time_limit, i))
             THEN [raised |-> TRUE, value |-> 0]
             ELSE [raised |-> FALSE,
                   value |-> ClockControl(time_limit[c], time_limit[i])]

-----------------------------------------------------------------------------
(* Step 2: the file pair, lines 120-122 *)

\* os.path.join('temp', f'<base>-<n>.txt')
Path(base, n) == [dir |-> "temp", base |-> base, n |-> n]

NoPath == [dir |-> "", base |-> "", n |-> 0]

\* Faulty variant: the counter is not incremented.
AllocateNoIncrement(m) ==
    [file_in |-> Path("input", m), file_out |-> Path("output", m), move |-> m]

Allocate(m) ==
    [file_in |-> Path("input", m), file_out |-> Path("output", m), move |-> m + 1]

-----------------------------------------------------------------------------
(* Step 3: the request, lines 135-139 *)

Request(time_control, board) ==
    << [directive |-> "setoption time_limit", arg |-> time_control],
       [directive |-> "setoption table_size", arg |-> TableSize],
       [directive |-> "go", arg |-> Fen(board)],
       [directive |-> "quit", arg |-> 0] >>

-----------------------------------------------------------------------------
(* Step 5: the move token, lines 145-146 *)

\* the generator over i in range(len(out) - 1, 0, -1); i is the 0-based
\* Python index, so that out[i] is the (i + 1)-th line
RECURSIVE ScanDefault(_, _, _)
ScanDefault(out, i, default) ==
    IF i <= 0 THEN default
    ELSE IF StartsWith(out[i + 1], PlayedPrefix)
         THEN Some(Strip(SliceFrom(out[i + 1], TokenOffset)))
         ELSE ScanDefault(out, i - 1, default)

\* Faulty variant: a file without a played line counts as a resignation.
ExtractMoveOrResign(out) == ScanDefault(out, Len(out) - 1, Some(ResignToken))

ExtractMove(out) == ScanDefault(out, Len(out) - 1, NoneToken)

-----------------------------------------------------------------------------
(* Step 6: resignation, rich notation, compact notation, lines 148-153 *)

PlayResult(m, resigned) ==
    [move |-> m, ponder |-> NoMove, resigned |-> resigned, draw_offered |-> FALSE]

NoResult == PlayResult(NoMove, FALSE)

Returned(result, board) ==
    [outcome |-> "returned", error |-> "-", result |-> result, board |-> board]

Raised(error, board) ==
    [outcome |-> "raised", error |-> error, result |-> NoResult, board |-> board]

\* Faulty variant: the failed rich-notation attempt leaves a null move on
\* the board before the compact-notation retry.
InterpretDirtyRetry(board, token) ==
    IF ~token.isNone /\ token.s = ResignToken
    THEN Returned(PlayResult(NoMove, TRUE), board)
    ELSE IF token.isNone THEN Raised("TypeError", board)
    ELSE IF SanMatches(board, token.s) # {}
         THEN LET m == CHOOSE x \in SanMatches(board, token.s) : TRUE
              IN  Returned(PlayResult(m, FALSE), Push(board, m))
    ELSE IF UciMatches(board, token.s) # {}
         THEN LET m == CHOOSE x \in UciMatches(board, token.s) : TRUE
              IN  Returned(PlayResult(m, FALSE), Push(Push(board, NoMove), m))
    ELSE Raised("ValueError", Push(board, NoMove))

\* push_san(None) is a TypeError, which `except ValueError` does not catch;
\* push_san and push_uci parse before they push, so a failed attempt leaves
\* the board as it was.
Interpret(board, token) ==
    IF ~token.isNone /\ token.s = ResignToken
    THEN Returned(PlayResult(NoMove, TRUE), board)
    ELSE IF token.isNone THEN Raised("TypeError", board)
    ELSE IF SanMatches(board, token.s) # {}
         THEN LET m == CHOOSE x \in SanMatches(board, token.s) : TRUE
              IN  Returned(PlayResult(m, FALSE), Push(board, m))
    ELSE IF UciMatches(board, token.s) # {}
         THEN LET m == CHOOSE x \in UciMatches(board, token.s) : TRUE
              IN  Returned(PlayResult(m, FALSE), Push(board, m))
    ELSE Raised("ValueError", board)

-----------------------------------------------------------------------------
(* The whole of Engine.search on counter value m, lines 118-153.  fs names *)
(* the file-system call that fails in this call, if any.                   *)

FsOutcomes == {"ok", "makedirs", "open_in", "open_out"}

\* what a call that raised before reaching a step leaves of that step
Blank(m, board) ==
    [stage |-> "makedirs", outcome |-> "raised", error |-> "OSError",
     move |-> m, allocated |-> FALSE, file_in |-> NoPath, file_out |-> NoPath,
     serialized |-> FALSE, time_control |-> 0, request |-> <<>>,
     parsed |-> FALSE, token |-> NoneToken,
     result |-> NoResult, board |-> board]

\* lines 124-153, once the file pair a is allocated
RunFrom(a, board, time_limit, out, fs) ==
    LET r1 == [Blank(a.move, board) EXCEPT !.allocated = TRUE,
                                           !.file_in = a.file_in,
                                           !.file_out = a.file_out]
        tc == TimeControl(board, time_limit)                      \* 124-133
    IN
    IF tc.raised
    THEN [r1 EXCEPT !.stage = "time_control", !.error = "TypeError"]
    ELSE IF fs = "open_in" THEN [r1 EXCEPT !.stage = "open_in"]   \* line 135
    ELSE
    LET r2 == [r1 EXCEPT !.serialized = TRUE,                     \* 136-140
                         !.time_control = tc.value,
                         !.request = Request(tc.value, board)]
    IN
    IF fs = "open_out" THEN [r2 EXCEPT !.stage = "open_out"]      \* line 142
    ELSE
    LET token == ExtractMove(out)                                 \* 143-146
        i     == Interpret(board, token)                          \* 148-153
    IN  [r2 EXCEPT !.stage = "interpret", !.parsed = TRUE, !.token = token,
                   !.outcome = i.outcome, !.error = i.error,
                   !.result = i.result, !.board = i.board]

Run(m, board, time_limit, out, fs) ==
    IF fs = "makedirs" THEN Blank(m, board)                       \* line 119
    ELSE RunFrom(Allocate(m), board, time_limit, out, fs)         \* 120-153

-----------------------------------------------------------------------------
(* Inputs *)

Line(chars) == chars \o <<"\n">>
Played(token) == PlayedPrefix \o <<" ">> \o token

InfoLine == Line(<<"i", "n", "f", "o">>)

\* lines as readlines() returns them, each ending in a newline
Lines ==
    { Line(Played(E2E4.san)), Line(Played(G1F3.uci)), Line(Played(E7E5.san)),
      Line(Played(ResignToken)), Line(Played(<<"z", "z">>)), Line(PlayedPrefix),
      InfoLine }

\* the last line of a file may lack its newline
LastLines == Lines \cup { Played(ResignToken) }

SeqsUpTo(S, n) == UNION { [1..k -> S] : k \in 0..n }

ResponseFiles ==
    {<<>>} \cup
    { body \o <<l>> : body \in SeqsUpTo(Lines, MaxLines - 1), l \in LastLines }

\* chess.engine.Limit, its fields in thousandths of a second; an absent
\* field is None
Limits ==
    { [time |-> 1000], [time |-> 1500], [time |-> 50],
      [white_clock |-> 60000, white_inc |-> 500,
       black_clock |-> 30000, black_inc |-> 2000],
      [white_clock |-> 12345, white_inc |-> 0,
       black_clock |-> 61999, black_inc |-> 1999],
      [white_clock |-> -1234, white_inc |-> 1000,
       black_clock |-> 10, black_inc |-> 0],
      [white_clock |-> -5000, white_inc |-> 0,
       black_clock |-> 0, black_inc |-> 0],
      [white_clock |-> 60000, white_inc |-> 1000] }

DefaultLimit == [time |-> 1000]
DefaultOut == <<InfoLine, Line(Played(E2E4.san))>>

Input(board, time_limit, out, fs) ==
    [board |-> board, time_limit |-> time_limit, out |-> out, fs |-> fs]

\* the budgets every response file is tried with: one of each variant
FileLimits ==
    { DefaultLimit,
      [white_clock |-> 60000, white_inc |-> 500,
       black_clock |-> 30000, black_inc |-> 2000] }

\* every board with every response file, and with every budget and every
\* failing file-system call
SearchInputs ==
    { Input(b, t, o, "ok") : b \in Boards, t \in FileLimits, o \in ResponseFiles }
    \cup { Input(b, t, DefaultOut, f) :
             b \in Boards, t \in Limits, f \in FsOutcomes }

\* the inputs of the specifications with several instances or threads
FewInputs ==
    { Input(StartBoard, DefaultLimit, DefaultOut, "ok"),
      Input(AfterE4, [white_clock |-> 60000, white_inc |-> 1000], DefaultOut, "ok"),
      Input(StartBoard, DefaultLimit, <<Line(Played(ResignToken))>>, "makedirs") }

-----------------------------------------------------------------------------
(* State *)

Instances == {"A", "B"}
Threads == {"t1", "t2"}

NoRec ==
    [inst |-> "-", in |-> Input(StartBoard, DefaultLimit, <<>>, "ok"),
     move0 |-> 0, run |-> Blank(0, StartBoard), done |-> FALSE]

NoFrame ==
    [in |-> Input(StartBoard, DefaultLimit, <<>>, "ok"),
     file_in |-> NoPath, file_out |-> NoPath, reg |-> 0, move0 |-> 0]

NoRelay == [name |-> "-", args |-> <<>>, outcome |-> "-", delivered |-> <<>>, done |-> FALSE]

\* Engine.__init__ sets self.move = 0 (line 116)
Init ==
    /\ move = [i \in Instances |-> 0]
    /\ calls = [i \in Instances |-> 0]
    /\ used = <<>>
    /\ rec = NoRec
    /\ pc = [t \in Threads |-> "idle"]
    /\ frame = [t \in Threads |-> NoFrame]
    /\ notified = <<>>
    /\ relay = NoRelay

TotalCalls == calls["A"] + calls["B"]

\* the harness makes one call at a time, MaxCalls in all
CanCall == ~rec.done /\ TotalCalls < MaxCalls

\* one whole call of search on instance inst
Search(inst, in) ==
    /\ LET run == Run(move[inst], in.board, in.time_limit, in.out, in.fs)
       IN  /\ move' = [move EXCEPT ![inst] = run.move]
           /\ calls' = [calls EXCEPT ![inst] = @ + 1]
           /\ used' = IF run.allocated
                      THEN Append(used, [inst |-> inst, file_in |-> run.file_in,
                                         file_out |-> run.file_out])
                      ELSE used
           /\ rec' = [inst |-> inst, in |-> in, move0 |-> move[inst],
                      run |-> run, done |-> TRUE]
    /\ UNCHANGED <<pc, frame, notified, relay>>

\* the caller has the PlayResult or the exception of the call and goes on
TakeResult ==
    /\ rec.done
    /\ rec' = NoRec
    /\ UNCHANGED <<move, calls, used, pc, frame, notified, relay>>

SearchOnce == CanCall /\ \E in \in SearchInputs : Search("A", in)

\* one driver instance, used sequentially
Next ==
    \/ SearchOnce
    \/ TakeResult

Spec == Init /\ [][Next]_vars

-----------------------------------------------------------------------------
(* Two driver instances in one process, each used sequentially *)

SearchEither == CanCall /\ \E inst \in Instances, in \in FewInputs : Search(inst, in)

NextMulti ==
    \/ SearchEither
    \/ TakeResult

SpecMulti == Init /\ [][NextMulti]_vars

-----------------------------------------------------------------------------
(* Two threads inside search on the same instance.  Python switches        *)
(* threads between bytecodes: each read of self.move (lines 120, 121, 122) *)
(* and the store of line 122 is a step of its own.                         *)

Self == "A"

\* search is entered
Call(t, in) ==
    /\ pc[t] = "idle"
    /\ TotalCalls < MaxCalls
    /\ pc' = [pc EXCEPT ![t] = "makedirs"]
    /\ frame' = [frame EXCEPT ![t] = [NoFrame EXCEPT !.in = in, !.move0 = move[Self]]]
    /\ calls' = [calls EXCEPT ![Self] = @ + 1]
    /\ UNCHANGED <<move, used, rec, notified, relay>>

\* line 119
Makedirs(t) ==
    /\ pc[t] = "makedirs"
    /\ IF frame[t].in.fs = "makedirs"
       THEN /\ pc' = [pc EXCEPT ![t] = "idle"]
            /\ rec' = [inst |-> Self, in |-> frame[t].in, move0 |-> frame[t].move0,
                       run |-> Blank(move[Self], frame[t].in.board), done |-> TRUE]
       ELSE /\ pc' = [pc EXCEPT ![t] = "file_in"]
            /\ rec' = rec
    /\ UNCHANGED <<move, calls, used, frame, notified, relay>>

\* line 120
FileIn(t) ==
    /\ pc[t] = "file_in"
    /\ frame' = [frame EXCEPT ![t].file_in = Path("input", move[Self])]
    /\ pc' = [pc EXCEPT ![t] = "file_out"]
    /\ UNCHANGED <<move, calls, used, rec, notified, relay>>

\* line 121
FileOut(t) ==
    /\ pc[t] = "file_out"
    /\ frame' = [frame EXCEPT ![t].file_out = Path("output", move[Self])]
    /\ used' = Append(used, [inst |-> Self, file_in |-> frame[t].file_in,
                             file_out |-> Path("output", move[Self])])
    /\ pc' = [pc EXCEPT ![t] = "load"]
    /\ UNCHANGED <<move, calls, rec, notified, relay>>

\* line 122, the read of self.move += 1
Load(t) ==
    /\ pc[t] = "load"
    /\ frame' = [frame EXCEPT ![t].reg = move[Self]]
    /\ pc' = [pc EXCEPT ![t] = "store"]
    /\ UNCHANGED <<move, calls, used, rec, notified, relay>>

\* line 122, the write of self.move += 1
Store(t) ==
    /\ pc[t] = "store"
    /\ move' = [move EXCEPT ![Self] = frame[t].reg + 1]
    /\ pc' = [pc EXCEPT ![t] = "rest"]
    /\ UNCHANGED <<calls, used, frame, rec, notified, relay>>

\* lines 124-153
Rest(t) ==
    /\ pc[t] = "rest"
    /\ LET in == frame[t].in
           a  == [file_in |-> frame[t].file_in, file_out |-> frame[t].file_out,
                  move |-> move[Self]]
       IN  rec' = [inst |-> Self, in |-> in, move0 |-> frame[t].move0,
                   run |-> RunFrom(a, in.board, in.time_limit, in.out, in.fs),
                   done |-> TRUE]
    /\ pc' = [pc EXCEPT ![t] = "idle"]
    /\ frame' = [frame EXCEPT ![t] = NoFrame]
    /\ UNCHANGED <<move, calls, used, notified, relay>>

NextConc ==
    \E t \in Threads :
        \/ \E in \in FewInputs : Call(t, in)
        \/ Makedirs(t)
        \/ FileIn(t)
        \/ FileOut(t)
        \/ Load(t)
        \/ Store(t)
        \/ Rest(t)

SpecConc == Init /\ [][NextConc]_vars

-----------------------------------------------------------------------------
(* The Notification Relay: FillerEngine, lines 23-38, on an owner whose    *)
(* notify is MinimalEngine's `pass` (line 83) or an override that raises.  *)

\* what __init__ stores on the instance: normal lookup finds these, and
\* __getattr__ is not asked
InstanceAttrs == {"id", "name", "main_engine"}

MethodNames == InstanceAttrs \cup {"quit", "ping", "configure"}
ArgLists == {<<>>, <<1>>, <<1, 2>>}
NotifyBehaviours == {"pass", "raise"}

\* relay.<name>(*args): the attribute is looked up, then called
CallOnRelay(name, args, behaviour) ==
    IF name \in InstanceAttrs
    THEN \* a dict, a str or None, an engine: not callable
         [name |-> name, args |-> args, outcome |-> "raised",
          delivered |-> <<>>, done |-> TRUE]
    ELSE \* __getattr__ returns method, which returns main_engine.notify(...)
         [name |-> name, args |-> args,
          outcome |-> IF behaviour = "raise" THEN "raised" ELSE "returned",
          delivered |-> << [name |-> name, args |-> args] >>, done |-> TRUE]

RelayCall(name, args, behaviour) ==
    /\ relay' = CallOnRelay(name, args, behaviour)
    /\ notified' = notified \o relay'.delivered
    /\ UNCHANGED <<move, calls, used, rec, pc, frame>>

RelayOnce ==
    /\ Len(notified) < MaxNotify
    /\ \E name \in MethodNames, args \in ArgLists, behaviour \in NotifyBehaviours :
           RelayCall(name, args, behaviour)

NextRelay == RelayOnce

SpecRelay == Init /\ [][NextRelay]_vars

-----------------------------------------------------------------------------
(* Reference notions the properties are stated with *)

\* the lines of a response file that start with 'COMPUTER PLAYED'
PlayedIdx(out) == {k \in 1..Len(out) : StartsWith(out[k], PlayedPrefix)}

LastPlayedLine(out) ==
    out[CHOOSE k \in PlayedIdx(out) : \A j \in PlayedIdx(out) : j <= k]

\* the token of the last played line: the text after the offset, trimmed
LastPlayedToken(out) == Strip(SliceFrom(LastPlayedLine(out), TokenOffset))

\* a line without its line terminator
Chomp(line) ==
    IF line # <<>> /\ line[Len(line)] = "\n" THEN SubSeq(line, 1, Len(line) - 1)
    ELSE line

\* the token is a move of the position under neither notation
ParsesUnderNeither(board, s) ==
    SanMatches(board, s) = {} /\ UciMatches(board, s) = {}

Abs(x) == IF x >= 0 THEN x ELSE -x

\* n is x (in thousandths) cut to a whole number, toward zero
Truncated(x) ==
    CHOOSE n \in -(Abs(x) \div 1000 + 1)..(Abs(x) \div 1000 + 1) :
        /\ n * x >= 0
        /\ Abs(n) * 1000 <= Abs(x)
        /\ Abs(x) < (Abs(n) + 1) * 1000

\* the clock and the increment of the side to move
OwnClock(in) ==
    IF in.board.turn = WHITE THEN in.time_limit.white_clock
    ELSE in.time_limit.black_clock
OwnInc(in) ==
    IF in.board.turn = WHITE THEN in.time_limit.white_inc
    ELSE in.time_limit.black_inc

HasOwnClock(in) ==
    IF in.board.turn = WHITE
    THEN Has(in.time_limit, "white_clock") /\ Has(in.time_limit, "white_inc")
    ELSE Has(in.time_limit, "black_clock") /\ Has(in.time_limit, "black_inc")

FixedBudget(in) == Has(in.time_limit, "time")

UsedBy(inst) == SelectSeq(used, LAMBDA u : u.inst = inst)

-----------------------------------------------------------------------------
(* Properties *)

\* C1: whenever the response file has a line starting with 'COMPUTER
\* PLAYED', the token search works with is the token of the LAST such
\* line, at whatever index that line is (the first line included).
C1_LastPlayedLineWins ==
    (rec.done /\ rec.run.parsed /\ PlayedIdx(rec.in.out) # {})
        => rec.run.token = Some(LastPlayedToken(rec.in.out))

\* C2: whenever the last played line of the response file is exactly
\* 'COMPUTER PLAYED RESIGN', search returns resigned = true and move = null,
\* wherever the line is (a file of that single line included).
C2_ResignDetected ==
    (/\ rec.done /\ rec.run.parsed
     /\ PlayedIdx(rec.in.out) # {}
     /\ Chomp(LastPlayedLine(rec.in.out)) = Played(ResignToken))
        => /\ rec.run.outcome = "returned"
           /\ rec.run.result = PlayResult(NoMove, TRUE)

\* C3: a call whose response file has no played line, or whose token parses
\* under neither notation, raises and returns no decision; and a call that
\* returns resigned = true had the token RESIGN.
C3_NoDecisionOnParseError ==
    (rec.done /\ rec.run.parsed) =>
        LET out == rec.in.out
            b   == rec.in.board
            bad(s) == s # ResignToken /\ ParsesUnderNeither(b, s)
        IN  /\ ( \/ PlayedIdx(out) = {}
                 \/ PlayedIdx(out) # {} /\ bad(LastPlayedToken(out))
                 \/ ~rec.run.token.isNone /\ bad(rec.run.token.s) )
                    => (rec.run.outcome = "raised" /\ rec.run.result = NoResult)
            /\ (rec.run.outcome = "returned" /\ rec.run.result.resigned)
                    => /\ rec.run.token = Some(ResignToken)
                       /\ PlayedIdx(out) # {}
                       /\ LastPlayedToken(out) = ResignToken

C3_Witness ==
    /\ rec.done /\ rec.run.parsed
    /\ Len(rec.in.out) >= 2
    /\ PlayedIdx(rec.in.out) = {}
    /\ rec.run.outcome = "raised"

\* C4 as stated: the time limit of the request is a * 1000 for a fixed
\* allotment a > 0, and max(c*10 + i*1000 - 300, 96) for the clock c and
\* increment i of the side to move.
C4_ExactReference ==
    (rec.done /\ rec.run.serialized) =>
        IF FixedBudget(rec.in)
        THEN rec.in.time_limit.time > 0
                => rec.run.time_control = rec.in.time_limit.time * 1000
        ELSE rec.run.time_control =
                Max(OwnClock(rec.in) * 10 + OwnInc(rec.in) * 1000
                        - SafetyMargin * 1000,
                    TimeFloor * 1000)

\* C4 amended: the time limit of the request is a * 1000 for a fixed
\* allotment a > 0, and max(trunc(c*10) + trunc(i)*1000 - 300, 96) for the
\* clock c and increment i of the side to move, trunc cutting toward zero;
\* the other side's values do not enter.
C4_TruncatedReference ==
    (rec.done /\ rec.run.serialized) =>
        IF FixedBudget(rec.in)
        THEN rec.in.time_limit.time > 0
                => rec.run.time_control = rec.in.time_limit.time * 1000
        ELSE /\ HasOwnClock(rec.in)
             /\ rec.run.time_control =
                  1000 * Max(Truncated(OwnClock(rec.in) * 10)
                                 + Truncated(OwnInc(rec.in)) * 1000 - SafetyMargin,
                             TimeFloor)

C4_Witness ==
    /\ rec.done /\ rec.run.serialized
    /\ ~FixedBudget(rec.in)
    /\ rec.in.board.turn = BLACK
    /\ rec.in.time_limit.black_clock # rec.in.time_limit.white_clock
    /\ rec.in.time_limit.black_inc % 1000 # 0
    /\ rec.in.time_limit.white_inc % 1000 = 0
    /\ rec.run.time_control > TimeFloor * 1000

\* C5 as stated: for either budget variant the time limit written to the
\* request is never negative and never below the floor of 96.
C5_FloorForEveryBudget ==
    (rec.done /\ rec.run.serialized) => rec.run.time_control >= TimeFloor * 1000

\* C5 amended: with a clock/increment budget the time limit written to the
\* request is never negative and never below 96; with a fixed allotment a it
\* is below 96 exactly when a < 0.096, and negative only when a is.
C5_FloorForClockBudget ==
    (rec.done /\ rec.run.serialized) =>
        IF FixedBudget(rec.in)
        THEN /\ rec.run.time_control < TimeFloor * 1000
                    <=> rec.in.time_limit.time < TimeFloor
             /\ rec.run.time_control < 0 <=> rec.in.time_limit.time < 0
        ELSE rec.run.time_control >= TimeFloor * 1000

C5_Witness ==
    /\ rec.done /\ rec.run.serialized
    /\ ~FixedBudget(rec.in)
    /\ OwnClock(rec.in) < 0
    /\ rec.run.time_control = TimeFloor * 1000

\* C6 as stated: the counter is incremented exactly once by every search
\* call, whatever the step at which the call fails.
C6_OncePerCall == move["A"] = calls["A"]

\* C6 amended: the counter starts at 0, is incremented exactly once by every
\* search call that gets past the creation of the scratch directory
\* (whether it then returns a move, resigns or fails) and is left as it is
\* by a call that fails there; it never decreases; the k-th call that names
\* its files uses suffix k-1 for both.
C6_OncePerAllocation ==
    /\ move["A"] = Len(UsedBy("A"))
    /\ move["A"] <= calls["A"]
    /\ \A k \in 1..Len(UsedBy("A")) :
          /\ UsedBy("A")[k].file_in = Path("input", k - 1)
          /\ UsedBy("A")[k].file_out = Path("output", k - 1)
    /\ rec.done =>
          /\ rec.run.stage = "makedirs" => move["A"] = rec.move0
          /\ rec.run.stage # "makedirs" => move["A"] = rec.move0 + 1

C6_Witness ==
    /\ rec.done
    /\ calls["A"] = 3 /\ move["A"] = 2
    /\ rec.run.stage = "interpret" /\ rec.run.outcome = "raised"

\* C7: two search calls on the same instance whose steps interleave never
\* get the same input-<n>/output-<n> file pair.
C7_NoSharedFilePair ==
    \A i, j \in 1..Len(used) :
        i # j => /\ used[i].file_in # used[j].file_in
                 /\ used[i].file_out # used[j].file_out

\* C8: a request or response path used by one driver instance is never a
\* path used by another instance of the same process.
C8_InstancesDoNotCollide ==
    \A i, j \in 1..Len(used) :
        used[i].inst # used[j].inst
            => {used[i].file_in, used[i].file_out}
                   \cap {used[j].file_in, used[j].file_out} = {}

\* C9: a call of any method name with any arguments on the relay makes
\* exactly one call of the owner's notify, with that name and those
\* arguments, and does not raise.
C9_RelayForwardsOnce ==
    relay.done =>
        /\ relay.outcome = "returned"
        /\ relay.delivered = << [name |-> relay.name, args |-> relay.args] >>

\* C10: a call that returns resigned = true or raises leaves the position as
\* it was on entry; a call that returns a move has applied exactly that one
\* move to it.
C10_BoardChangesOnlyByTheMove ==
    rec.done =>
        IF rec.run.outcome = "returned" /\ ~rec.run.result.resigned
        THEN rec.run.board = Push(rec.in.board, rec.run.result.move)
        ELSE rec.run.board = rec.in.board

C10_Witness ==
    /\ rec.done /\ rec.run.outcome = "returned"
    /\ rec.run.token = Some(G1F3.uci)
    /\ rec.run.result.move = G1F3
    /\ rec.run.board = Push(rec.in.board, G1F3)

=============================================================================
